---- MODULE Spec2Model ----
(***************************************************************************)
(* photo-organizer (src/src/main.rs): the per-file pipeline of             *)
(* process_photo (extract capture date -> choose sub-directory ->          *)
(* resolve_conflict -> existence check -> create_dir_all -> rename / copy  *)
(* / remove_file), the error boundary and the Stats of main, as a state    *)
(* machine over a file system.                                             *)
(*                                                                         *)
(* A path is <<directory, file name>>; a file name is a sequence of        *)
(* pieces in which "." and "_" are pieces of their own, so that            *)
(* Path::file_stem, Path::extension and format!("{}_{}.{}") are computed   *)
(* on the name and two differently built names can be the same path.       *)
(* A file system maps the paths of its files to their contents.            *)
(***************************************************************************)
EXTENDS Integers, Sequences, FiniteSets, TLC

VARIABLES
    scenario,       \* which experiment the runs form (see the Init* definitions)
    src,            \* the source tree: candidate path -> [date, readable]
    photos,         \* run -> the sorted candidate list of collect_photos
    cli,            \* run -> Cli {move, dry_run, format}
    world,          \* run -> the file system it works on
    envOf,          \* run -> the environment (I/O results, clock) it meets
    fs,             \* file system -> (path -> content) of the existing files
    dirs,           \* file system -> existing output sub-directories
    fs0,            \* the files before any run started
    dirs0,          \* the output sub-directories before any run started
    env,            \* environment -> path -> results of the I/O calls, once met
    pc,             \* run -> position in main's loop / process_photo
    idx,            \* run -> index of the candidate of the current iteration
    capture_date,   \* run -> process_photo's capture_date
    target_subdir,  \* run -> process_photo's target_subdir
    target_path,    \* run -> process_photo's target_path
    stats,          \* run -> Stats
    log,            \* run -> per candidate, how its process_photo call ended
    desired,        \* resolve_conflict called on its own: the file_name argument
    resolved        \* resolve_conflict called on its own: the path returned

vars == <<scenario, src, photos, cli, world, envOf, fs, dirs, fs0, dirs0, env,
          pc, idx, capture_date, target_subdir, target_path, stats, log,
          desired, resolved>>

(***************************************************************************)
(* Bounds of the model.                                                    *)
(***************************************************************************)
\* Number of candidate files the source tree may hold.
NumSources == 2

\* Highest suffix resolve_conflict probes.  The source probes 1..9999
\* (`for i in 1..10000`); the model keeps the loop and scales its length.
ProbeLimit == 1

Runs == {1, 2}

\* Source directories, in the order photos.sort() puts their files.
SrcDirs == <<"s1", "s2", "s3", "s4">>

NameA == <<"a", ".", "jpg">>

NoDate == [year |-> 0, month |-> 0, day |-> 0]

June15 == [year |-> 2023, month |-> 6, day |-> 15]

Dates == {June15, [year |-> 2023, month |-> 6, day |-> 20]}

DateFormats == {"%Y-%m-%d", "%Y/%m"}

\* Readings of chrono::Utc::now().timestamp().
Timestamps == {1700000000, 1700000001}

NoPath == <<"", <<>>>>

OldContent == "old"

(***************************************************************************)
(* Names and paths.                                                        *)
(***************************************************************************)
DigitChars == <<"0", "1", "2", "3", "4", "5", "6", "7", "8", "9">>

\* The decimal rendering of i by format!("{}", i).
RECURSIVE Digits(_)
Digits(i) ==
    IF i < 10 THEN <<DigitChars[i + 1]>>
    ELSE Digits(i \div 10) \o <<DigitChars[(i % 10) + 1]>>

\* Position of the last "." of a name, 0 when it has none.
LastDot(name) ==
    LET dots == {i \in 1..Len(name) : name[i] = "."}
    IN  IF dots = {} THEN 0 ELSE CHOOSE i \in dots : \A j \in dots : j <= i

\* Path::file_stem: the whole name when it has no dot, is "..", or its only
\* dot leads it; else what precedes the last dot.
FileStem(name) ==
    IF name = <<".", ".">> \/ LastDot(name) <= 1 THEN name
    ELSE SubSeq(name, 1, LastDot(name) - 1)

\* Path::extension, with unwrap_or(""): what follows the last dot, or empty.
Extension(name) ==
    IF name = <<".", ".">> \/ LastDot(name) <= 1 THEN <<>>
    ELSE SubSeq(name, LastDot(name) + 1, Len(name))

\* NewName without the test of ext.is_empty().
NewNameDotted(stem, ext, i) == stem \o <<"_">> \o Digits(i) \o <<".">> \o ext

\* new_name of resolve_conflict's loop body.
NewName(stem, ext, i) ==
    IF ext = <<>> THEN stem \o <<"_">> \o Digits(i)
    ELSE stem \o <<"_">> \o Digits(i) \o <<".">> \o ext

\* The loop `for i in 1..10000` of resolve_conflict, from i on: the first
\* probe that does not exist, or the timestamp-suffixed name after the last.
RECURSIVE ProbeFrom(_, _, _, _, _)
ProbeFrom(files, dir, file_name, now, i) ==
    IF i > ProbeLimit THEN <<dir, file_name \o <<"_">> \o Digits(now)>>
    ELSE LET new_target ==
                 <<dir, NewName(FileStem(file_name), Extension(file_name), i)>>
         IN  IF new_target \notin files THEN new_target
             ELSE ProbeFrom(files, dir, file_name, now, i + 1)

\* resolve_conflict(dir, file_name), files being the paths that exist and now
\* the clock reading of its last line.
resolve_conflict(files, dir, file_name, now) ==
    IF <<dir, file_name>> \notin files THEN <<dir, file_name>>
    ELSE ProbeFrom(files, dir, file_name, now, 1)

\* Whether resolve_conflict reads the clock.
NeedsClock(files, dir, file_name) ==
    /\ <<dir, file_name>> \in files
    /\ \A i \in 1..ProbeLimit :
           <<dir, NewName(FileStem(file_name), Extension(file_name), i)>> \in files

(***************************************************************************)
(* Dates.                                                                  *)
(***************************************************************************)
Pad2(n) == IF n < 10 THEN "0" \o ToString(n) ELSE ToString(n)

\* dt.format(fmt).to_string() for the patterns of DateFormats.
FormatDate(dt, fmt) ==
    IF fmt = "%Y-%m-%d"
    THEN ToString(dt.year) \o "-" \o Pad2(dt.month) \o "-" \o Pad2(dt.day)
    ELSE ToString(dt.year) \o "/" \o Pad2(dt.month)

\* The key of stats.date_counts.
HistogramKey(dt) == FormatDate(dt, "%Y-%m-%d")

\* Increment as insert(key, 1): the count of a key already there is lost.
IncrementInsert(counts, key) ==
    IF key \in DOMAIN counts THEN [counts EXCEPT ![key] = 1]
    ELSE counts @@ (key :> 1)

\* *entry(key).or_insert(0) += 1
Increment(counts, key) ==
    IF key \in DOMAIN counts THEN [counts EXCEPT ![key] = @ + 1]
    ELSE counts @@ (key :> 1)

\* The sub-directory process_photo chooses.
TargetSubdir(date, fmt) ==
    IF date # NoDate THEN FormatDate(date, fmt) ELSE "unsorted"

\* extract_capture_date taking a file that cannot be opened for one without
\* metadata: Ok(None) where the source returns Err.
extract_capture_dateNoErr(files, tree, path) ==
    IF path \in DOMAIN files /\ tree[path].readable
    THEN [ok |-> TRUE, date |-> tree[path].date]
    ELSE [ok |-> TRUE, date |-> NoDate]

\* extract_capture_date: Err when the file cannot be opened, else the date
\* its metadata yields (NoDate for none).
extract_capture_date(files, tree, path) ==
    IF path \in DOMAIN files /\ tree[path].readable
    THEN [ok |-> TRUE, date |-> tree[path].date]
    ELSE [ok |-> FALSE, date |-> NoDate]

(***************************************************************************)
(* Initial states.                                                         *)
(***************************************************************************)
SrcPath(i) == <<SrcDirs[i], NameA>>

Attrs == {[date |-> d, readable |-> TRUE] : d \in Dates \cup {NoDate}}
         \cup {[date |-> NoDate, readable |-> FALSE]}

SourceTrees ==
    UNION {[{SrcPath(i) : i \in I} -> Attrs] : I \in SUBSET (1..NumSources)}

\* collect_photos: the files of the tree, sorted by path.
RECURSIVE SortedFrom(_, _)
SortedFrom(paths, i) ==
    IF i > Len(SrcDirs) THEN <<>>
    ELSE (IF SrcPath(i) \in paths THEN <<SrcPath(i)>> ELSE <<>>)
         \o SortedFrom(paths, i + 1)

collect_photos(tree) == SortedFrom(DOMAIN tree, 1)

\* The candidates that can be opened, in order.
Readable(tree) == SortedFrom({p \in DOMAIN tree : tree[p].readable}, 1)

\* Names NameA can collide with in an output sub-directory.
OutNames ==
    {NameA, NameA \o <<"_">> \o Digits(1700000000)}
    \cup {NewName(FileStem(NameA), Extension(NameA), i) : i \in 1..ProbeLimit}

\* What the output tree may hold before a run: nothing, or in one
\* sub-directory a file of the candidates' name and any of the others.
Prefills(fmt) ==
    {{}} \cup
    {{<<d, n>> : n \in ns} :
        d \in {"unsorted", FormatDate(June15, fmt)},
        ns \in {x \in SUBSET OutNames : NameA \in x}}

Stats0 == [organized |-> 0, unsorted |-> 0, skipped |-> 0, errors |-> 0,
           date_counts |-> <<>>]

\* What the environment has returned for a file before any call on it: env
\* records the result of each fs call and the clock reading when it is first
\* met, so that two runs that are compared meet the same results.
Unmet == [mkdir |-> "?", rename |-> "?", copy |-> "?", remove |-> "?", now |-> 0]

Clis == [move : BOOLEAN, dry_run : BOOLEAN, format : DateFormats]

\* The candidate lists of the two runs: the second run of "repeat" and
\* "simulate" gets the list of the first, that of "isolation" only the files
\* that can be opened; the runs of "concurrent" have source directories of
\* their own, in turn.
Candidates(sc, tree) ==
    LET all == collect_photos(tree)
    IN  CASE sc \in {"repeat", "simulate"} -> <<all, all>>
          [] sc = "isolation" -> <<all, Readable(tree)>>
          [] sc = "concurrent" ->
                 <<[i \in 1..((Len(all) + 1) \div 2) |-> all[2 * i - 1]],
                   [i \in 1..(Len(all) \div 2) |-> all[2 * i]]>>
          [] OTHER -> <<all, <<>> >>

\* The state after main has collected the photos, run 1 under c1 and run 2
\* (when the scenario has one) under c2.  The runs of "isolation" and
\* "simulate" are compared: each has the initial file system to itself and
\* both meet the same environment.  The other runs share the file system.
Setup(sc, tree, pre, c1, c2, unmet) ==
    LET files == [p \in DOMAIN tree |-> p[1]] @@ [q \in pre |-> OldContent]
        ds    == {q[1] : q \in pre}
        w2    == IF sc \in {"isolation", "simulate"} THEN 2 ELSE 1
        e2    == IF sc \in {"isolation", "simulate"} THEN 1 ELSE 2
    IN  /\ scenario = sc
        /\ src = tree
        /\ photos = Candidates(sc, tree)
        /\ cli = <<c1, c2>>
        /\ world = <<1, w2>>
        /\ envOf = <<1, e2>>
        /\ fs = [w \in {1, w2} |-> files]
        /\ dirs = [w \in {1, w2} |-> ds]
        /\ fs0 = files
        /\ dirs0 = ds
        /\ env = [e \in {1, e2} |-> [p \in DOMAIN tree |-> unmet]]
        /\ pc = <<"next", IF sc = "single" THEN "done" ELSE "next">>
        /\ idx = <<1, 1>>
        /\ capture_date = <<NoDate, NoDate>>
        /\ target_subdir = <<"", "">>
        /\ target_path = <<NoPath, NoPath>>
        /\ stats = <<Stats0, Stats0>>
        /\ log = << <<>>, <<>> >>
        /\ desired = <<>>
        /\ resolved = NoPath

\* One run of the program.
Init ==
    \E tree \in SourceTrees, c \in Clis :
        \E pre \in Prefills(c.format) :
            Setup("single", tree, pre, c, c, Unmet)

(***************************************************************************)
(* main's loop and process_photo.                                          *)
(***************************************************************************)
Files(r) == fs[world[r]]

Cur(r) == photos[r][idx[r]]

\* Run 2 starts with run 1 unless the scenario runs them one after the other.
MayStart(r) == r = 1 \/ scenario = "concurrent" \/ pc[1] = "done"

\* The I/O call `call` on the current candidate of r ends as `v`.
Meets(r, call, v) ==
    /\ env[envOf[r]][Cur(r)][call] \in {"?", v}
    /\ env' = [env EXCEPT ![envOf[r]][Cur(r)][call] = v]

\* The iteration of main's loop ends: process_photo's locals are dropped.
EndIteration(r, result) ==
    /\ log' = [log EXCEPT ![r] =
                   Append(@, [path |-> Cur(r), result |-> result,
                              dest |-> target_path[r]])]
    /\ idx' = [idx EXCEPT ![r] = @ + 1]
    /\ pc' = [pc EXCEPT ![r] = "next"]
    /\ capture_date' = [capture_date EXCEPT ![r] = NoDate]
    /\ target_subdir' = [target_subdir EXCEPT ![r] = ""]
    /\ target_path' = [target_path EXCEPT ![r] = NoPath]

\* process_photo returned Err: main counts it and goes on.
Failed(r) ==
    /\ stats' = [stats EXCEPT ![r].errors = @ + 1]
    /\ EndIteration(r, "error")

Static == UNCHANGED <<scenario, src, photos, cli, world, envOf, fs0, dirs0,
                      desired, resolved>>

\* Lines 209-224: extract_capture_date, then the histogram or unsorted count.
ExtractCaptureDate(r) ==
    /\ pc[r] = "next" /\ idx[r] <= Len(photos[r]) /\ MayStart(r)
    /\ LET got == extract_capture_date(Files(r), src, Cur(r))
       IN  IF ~got.ok
           THEN Failed(r)
           ELSE /\ capture_date' = [capture_date EXCEPT ![r] = got.date]
                /\ target_subdir' =
                       [target_subdir EXCEPT
                            ![r] = TargetSubdir(got.date, cli[r].format)]
                /\ stats' =
                       IF got.date # NoDate
                       THEN [stats EXCEPT ![r].date_counts =
                                 Increment(@, HistogramKey(got.date))]
                       ELSE [stats EXCEPT ![r].unsorted = @ + 1]
                /\ pc' = [pc EXCEPT ![r] = "resolve"]
                /\ UNCHANGED <<idx, target_path, log>>
    /\ UNCHANGED <<fs, dirs, env>>
    /\ Static

\* Lines 227-233: the file name and resolve_conflict.  A candidate is a file
\* collect_photos found, so its path has a file name and line 229 passes.
ResolveConflict(r) ==
    /\ pc[r] = "resolve"
    /\ LET file_name == Cur(r)[2]
           known == env[envOf[r]][Cur(r)].now
       IN  IF NeedsClock(DOMAIN Files(r), target_subdir[r], file_name)
           THEN \E now \in Timestamps :
                    /\ known \in {0, now}
                    /\ env' = [env EXCEPT ![envOf[r]][Cur(r)].now = now]
                    /\ target_path' =
                           [target_path EXCEPT ![r] =
                                resolve_conflict(DOMAIN Files(r),
                                                 target_subdir[r], file_name, now)]
           ELSE /\ target_path' =
                       [target_path EXCEPT ![r] =
                            resolve_conflict(DOMAIN Files(r), target_subdir[r],
                                             file_name, 0)]
                /\ UNCHANGED env
    /\ pc' = [pc EXCEPT ![r] = "check"]
    /\ UNCHANGED <<fs, dirs, idx, capture_date, target_subdir, stats, log>>
    /\ Static

\* CheckExists without lines 236-239: an existing target is not skipped.
CheckExistsNoSkip(r) ==
    /\ pc[r] = "check"
    /\ pc' = [pc EXCEPT ![r] = IF cli[r].dry_run THEN "tally" ELSE "mkdir"]
    /\ UNCHANGED <<idx, capture_date, target_subdir, target_path, stats, log>>
    /\ UNCHANGED <<fs, dirs, env>>
    /\ Static

\* CheckExists without the test of line 260: a dry run transfers too.
CheckExistsNoDryRun(r) ==
    /\ pc[r] = "check"
    /\ IF target_path[r] \in DOMAIN Files(r)
       THEN /\ stats' = [stats EXCEPT ![r].skipped = @ + 1]
            /\ EndIteration(r, "skipped")
       ELSE /\ pc' = [pc EXCEPT ![r] = "mkdir"]
            /\ UNCHANGED <<idx, capture_date, target_subdir, target_path, stats, log>>
    /\ UNCHANGED <<fs, dirs, env>>
    /\ Static

\* Lines 236-239 and 260: skip an existing target; else go on to the transfer,
\* which a dry run leaves out.
CheckExists(r) ==
    /\ pc[r] = "check"
    /\ IF target_path[r] \in DOMAIN Files(r)
       THEN /\ stats' = [stats EXCEPT ![r].skipped = @ + 1]
            /\ EndIteration(r, "skipped")
       ELSE /\ pc' = [pc EXCEPT ![r] = IF cli[r].dry_run THEN "tally" ELSE "mkdir"]
            /\ UNCHANGED <<idx, capture_date, target_subdir, target_path, stats, log>>
    /\ UNCHANGED <<fs, dirs, env>>
    /\ Static

\* Lines 261-262: fs::create_dir_all(&target_subdir)?
CreateDirAll(r) ==
    /\ pc[r] = "mkdir"
    /\ \E v \in {"ok", "fail"} :
           /\ Meets(r, "mkdir", v)
           /\ IF v = "ok"
              THEN /\ dirs' = [dirs EXCEPT ![world[r]] = @ \cup {target_subdir[r]}]
                   /\ pc' = [pc EXCEPT ![r] = IF cli[r].move THEN "rename" ELSE "copy"]
                   /\ UNCHANGED <<idx, capture_date, target_subdir, target_path,
                                  stats, log>>
              ELSE /\ Failed(r)
                   /\ UNCHANGED dirs
    /\ UNCHANGED fs
    /\ Static

\* The file system after fs::rename(from, to) succeeded.
Renamed(files, from, to) ==
    [p \in (DOMAIN files \ {from}) \cup {to} |->
        IF p = to THEN files[from] ELSE files[p]]

\* The file system after fs::copy(from, to) succeeded.
Copied(files, from, to) ==
    [p \in DOMAIN files \cup {to} |-> IF p = to THEN files[from] ELSE files[p]]

\* The file system after fs::remove_file(path) succeeded.
Removed(files, path) == [p \in DOMAIN files \ {path} |-> files[p]]

\* Line 265: fs::rename(photo_path, &target_path); on Err the copy follows.
Rename(r) ==
    /\ pc[r] = "rename"
    /\ \E v \in {"ok", "fail"} :
           /\ Meets(r, "rename", v)
           /\ IF v = "ok" /\ Cur(r) \in DOMAIN Files(r)
              THEN /\ fs' = [fs EXCEPT ![world[r]] = Renamed(@, Cur(r), target_path[r])]
                   /\ pc' = [pc EXCEPT ![r] = "tally"]
              ELSE /\ pc' = [pc EXCEPT ![r] = "copy"]
                   /\ UNCHANGED fs
    /\ UNCHANGED <<dirs, idx, capture_date, target_subdir, target_path, stats, log>>
    /\ Static

\* CopyFile with the result of fs::copy dropped instead of returned by `?`.
CopyFileUnchecked(r) ==
    /\ pc[r] = "copy"
    /\ \E v \in {"ok", "fail"} :
           /\ Meets(r, "copy", v)
           /\ fs' = IF v = "ok" /\ Cur(r) \in DOMAIN Files(r)
                    THEN [fs EXCEPT ![world[r]] = Copied(@, Cur(r), target_path[r])]
                    ELSE fs
    /\ pc' = [pc EXCEPT ![r] = IF cli[r].move THEN "remove" ELSE "tally"]
    /\ UNCHANGED <<dirs, idx, capture_date, target_subdir, target_path, stats, log>>
    /\ Static

\* Lines 266-268 and 273-275: fs::copy(photo_path, &target_path)?  A copy
\* that fails is taken to leave nothing at the target.
CopyFile(r) ==
    /\ pc[r] = "copy"
    /\ \E v \in {"ok", "fail"} :
           /\ Meets(r, "copy", v)
           /\ IF v = "ok" /\ Cur(r) \in DOMAIN Files(r)
              THEN /\ fs' = [fs EXCEPT ![world[r]] = Copied(@, Cur(r), target_path[r])]
                   /\ pc' = [pc EXCEPT ![r] = IF cli[r].move THEN "remove" ELSE "tally"]
                   /\ UNCHANGED <<idx, capture_date, target_subdir, target_path,
                                  stats, log>>
              ELSE /\ Failed(r)
                   /\ UNCHANGED fs
    /\ UNCHANGED dirs
    /\ Static

\* Lines 269-270: fs::remove_file(photo_path)?
RemoveFile(r) ==
    /\ pc[r] = "remove"
    /\ \E v \in {"ok", "fail"} :
           /\ Meets(r, "remove", v)
           /\ IF v = "ok" /\ Cur(r) \in DOMAIN Files(r)
              THEN /\ fs' = [fs EXCEPT ![world[r]] = Removed(@, Cur(r))]
                   /\ pc' = [pc EXCEPT ![r] = "tally"]
                   /\ UNCHANGED <<idx, capture_date, target_subdir, target_path,
                                  stats, log>>
              ELSE /\ Failed(r)
                   /\ UNCHANGED fs
    /\ UNCHANGED dirs
    /\ Static

\* Lines 279-283: the organized count and Ok(()).
Tally(r) ==
    /\ pc[r] = "tally"
    /\ stats' = IF capture_date[r] # NoDate
                THEN [stats EXCEPT ![r].organized = @ + 1]
                ELSE stats
    /\ EndIteration(r, IF capture_date[r] # NoDate THEN "organized" ELSE "unsorted")
    /\ UNCHANGED <<fs, dirs, env>>
    /\ Static

\* Lines 119-139: the loop is over and the summary is printed.
Finish(r) ==
    /\ pc[r] = "next" /\ idx[r] > Len(photos[r]) /\ MayStart(r)
    /\ pc' = [pc EXCEPT ![r] = "done"]
    /\ UNCHANGED <<fs, dirs, env, idx, capture_date, target_subdir, target_path,
                   stats, log>>
    /\ Static

Next ==
    \E r \in Runs :
        \/ ExtractCaptureDate(r)
        \/ ResolveConflict(r)
        \/ CheckExists(r)
        \/ CreateDirAll(r)
        \/ Rename(r)
        \/ CopyFile(r)
        \/ RemoveFile(r)
        \/ Tally(r)
        \/ Finish(r)

Spec == Init /\ [][Next]_vars

(***************************************************************************)
(* Experiments with two runs, and resolve_conflict on its own.             *)
(***************************************************************************)
\* The program is run, and when it has ended it is run again with the same
\* arguments on the same candidates and the same output tree.
InitRepeat ==
    \E tree \in SourceTrees, c \in Clis :
        \E pre \in Prefills(c.format) :
            Setup("repeat", tree, pre, c, c, Unmet)

\* Run 1 is given all candidates, run 2 only those that can be opened.
InitIsolation ==
    \E tree \in SourceTrees, c \in Clis :
        \E pre \in Prefills(c.format) :
            /\ c.format = "%Y-%m-%d"
            /\ \A p \in DOMAIN tree : tree[p].date \in {NoDate, June15}
            /\ Setup("isolation", tree, pre, c, c, Unmet)

\* Run 1 is the --dry-run of run 2.
InitSimulate ==
    \E tree \in SourceTrees, c \in Clis :
        \E pre \in Prefills(c.format) :
            Setup("simulate", tree, pre, [c EXCEPT !.dry_run = TRUE],
                  [c EXCEPT !.dry_run = FALSE], Unmet)

\* The environment in which only fs::rename can fail (EXDEV).
CrossDevice == [Unmet EXCEPT !.mkdir = "ok", !.copy = "ok", !.remove = "ok"]

\* Two processes run the program at once, for real, each on its own source
\* directories and both on the same output tree; their steps interleave.
InitConcurrent ==
    \E tree \in SourceTrees, c \in Clis :
        \E pre \in Prefills(c.format) :
            /\ \A p \in DOMAIN tree :
                   tree[p].readable /\ tree[p].date \in {NoDate, June15}
            /\ c.format = "%Y-%m-%d" /\ ~c.dry_run
            /\ Setup("concurrent", tree, pre, c, c, CrossDevice)

SpecRepeat == InitRepeat /\ [][Next]_vars

SpecIsolation == InitIsolation /\ [][Next]_vars

SpecSimulate == InitSimulate /\ [][Next]_vars

SpecConcurrent == InitConcurrent /\ [][Next]_vars

\* File names resolve_conflict is called on.
ResolveNames ==
    {NameA, <<"a">>, <<"a", ".">>, <<".", "a">>, <<".", ".">>,
     <<"a", ".", "b", ".", "jpg">>, <<"a", "_", "1", ".", "jpg">>}

\* The names of a directory that resolve_conflict(dir, name) looks at.
Probed(name) ==
    {name} \cup {name \o <<"_">> \o Digits(now) : now \in Timestamps}
    \cup {NewName(FileStem(name), Extension(name), i) : i \in 1..ProbeLimit}

\* resolve_conflict is about to be called on some name in some directory.
InitResolve ==
    \E name \in ResolveNames : \E there \in SUBSET Probed(name) :
        /\ scenario = "resolve"
        /\ desired = name
        /\ resolved = NoPath
        /\ fs = <<[q \in {<<"dir", n>> : n \in there} |-> OldContent]>>
        /\ dirs = <<{"dir"}>>
        /\ fs0 = fs[1]
        /\ dirs0 = dirs[1]
        /\ src = <<>>
        /\ photos = << <<>>, <<>> >>
        /\ cli = [r \in Runs |-> [move |-> FALSE, dry_run |-> FALSE,
                                  format |-> "%Y-%m-%d"]]
        /\ world = <<1, 1>>
        /\ envOf = <<1, 1>>
        /\ env = << <<>> >>
        /\ pc = <<"done", "done">>
        /\ idx = <<1, 1>>
        /\ capture_date = <<NoDate, NoDate>>
        /\ target_subdir = <<"", "">>
        /\ target_path = <<NoPath, NoPath>>
        /\ stats = <<Stats0, Stats0>>
        /\ log = << <<>>, <<>> >>

\* The call resolve_conflict(dir, desired) at some clock reading.
ResolveCall ==
    /\ scenario = "resolve" /\ resolved = NoPath
    /\ \E now \in Timestamps :
           resolved' = resolve_conflict(DOMAIN fs[1], "dir", desired, now)
    /\ UNCHANGED <<scenario, src, photos, cli, world, envOf, fs, dirs, fs0,
                   dirs0, env, pc, idx, capture_date, target_subdir,
                   target_path, stats, log, desired>>

NextResolve == ResolveCall

SpecResolve == InitResolve /\ [][NextResolve]_vars

(***************************************************************************)
(* Properties.                                                             *)
(***************************************************************************)
\* Run r's rename or copy onto target_path succeeds in this step.
Wrote(r) ==
    \/ pc[r] = "rename" /\ pc'[r] = "tally"
    \/ pc[r] = "copy" /\ pc'[r] \in {"remove", "tally"}

\* The candidate of run r is between its extraction and its end.
InProgress(r) == pc[r] \notin {"next", "done"}

Transferred == {"organized", "unsorted"}

\* Whether the candidate at path was opened and yielded a date.
Dated(path) == src[path].readable /\ src[path].date # NoDate

RECURSIVE SumCounts(_)
SumCounts(counts) ==
    IF DOMAIN counts = {} THEN 0
    ELSE LET k == CHOOSE k \in DOMAIN counts : TRUE
         IN  counts[k] + SumCounts([j \in DOMAIN counts \ {k} |-> counts[j]])

Entries(r, results) == {i \in 1..Len(log[r]) : log[r][i].result \in results}

\* C1: in one real run (copy or move) every rename or copy writes to a path
\* at which nothing existed, from the existence check to the write: no step
\* changes the content of a file that stays, no file of the output tree
\* disappears, and a candidate whose resolved destination exists is Skipped
\* with the file system as it was.
C1_NoOverwriteStep ==
    /\ \A r \in Runs : Wrote(r) => target_path[r] \notin DOMAIN Files(r)
    /\ \A p \in DOMAIN fs[1] \cap DOMAIN fs'[1] : fs'[1][p] = fs[1][p]
    /\ \A p \in DOMAIN fs[1] \ DOMAIN fs'[1] :
           cli[1].move /\ pc[1] \in {"rename", "remove"} /\ p = Cur(1)
    /\ (pc[1] = "check" /\ target_path[1] \in DOMAIN fs[1]) =>
           /\ pc'[1] = "next" /\ idx'[1] = idx[1] + 1
           /\ stats' = [stats EXCEPT ![1].skipped = @ + 1]
           /\ log'[1][idx[1]].result = "skipped"
           /\ fs' = fs /\ dirs' = dirs
    /\ pc[1] \in {"next", "resolve", "check"} => fs' = fs /\ dirs' = dirs

\* C1: no overwrite in one sequential real run: from the existence check to
\* the write nothing exists at target_path, and every step is as above.
C1_NoOverwrite ==
    /\ [](pc[1] \in {"mkdir", "rename", "copy"} =>
              target_path[1] \notin DOMAIN fs[1])
    /\ [][C1_NoOverwriteStep]_vars

\* A real run has written one candidate beside an existing file of the same
\* name and skipped another whose timestamp-suffixed destination existed.
C1_Witness ==
    /\ pc[1] = "done" /\ ~cli[1].dry_run
    /\ \E i, j \in 1..Len(log[1]) :
           /\ log[1][i].result \in Transferred
           /\ log[1][i].dest[2] # NameA
           /\ fs[1][log[1][i].dest] = log[1][i].path[1]
           /\ <<log[1][i].dest[1], NameA>> \in DOMAIN fs0
           /\ log[1][j].result = "skipped"
           /\ log[1][j].dest \in DOMAIN fs0

\* C2: after every candidate, organized + unsorted + skipped + errors is the
\* number of candidates processed, and the candidates ended as skipped or as
\* errors are counted in no other bucket.
C2_OneBucket ==
    pc[1] \in {"next", "done"} =>
        /\ stats[1].organized + stats[1].unsorted + stats[1].skipped
               + stats[1].errors = idx[1] - 1
        /\ stats[1].skipped = Cardinality(Entries(1, {"skipped"}))
        /\ stats[1].errors = Cardinality(Entries(1, {"error"}))
        /\ stats[1].organized + stats[1].unsorted
               = Cardinality(Entries(1, Transferred))

\* The I/O results the candidate at path met in the one run of Spec.
Met(path) == env[1][path]

\* C7: a candidate of a real move whose rename was attempted ends (a) with the
\* source gone, the destination holding its content and no error, when the
\* rename or both copy and delete succeeded; (b) with an error counted, the
\* source unchanged and no delete attempted, when rename and copy failed;
\* (c) with an error counted and both files there, when only the delete
\* failed.  Until then its content is at the source or at the destination.
C7_MoveWithFallback ==
    (cli[1].move /\ ~cli[1].dry_run) =>
        /\ \A i \in 1..Len(log[1]) :
               LET e == log[1][i]
                   m == Met(e.path)
                   content == e.path[1]
               IN  m.rename # "?" =>
                       /\ (m.rename = "ok"
                           \/ (m.copy = "ok" /\ m.remove = "ok")) =>
                              /\ e.path \notin DOMAIN fs[1]
                              /\ e.dest \in DOMAIN fs[1]
                              /\ fs[1][e.dest] = content
                              /\ e.result \in Transferred
                       /\ (m.rename = "fail" /\ m.copy = "fail") =>
                              /\ e.result = "error"
                              /\ m.remove = "?"
                              /\ e.path \in DOMAIN fs[1]
                              /\ fs[1][e.path] = content
                       /\ (m.rename = "fail" /\ m.copy = "ok"
                           /\ m.remove = "fail") =>
                              /\ e.result = "error"
                              /\ e.path \in DOMAIN fs[1]
                              /\ fs[1][e.path] = content
                              /\ e.dest \in DOMAIN fs[1]
                              /\ fs[1][e.dest] = content
        /\ stats[1].errors = Cardinality(Entries(1, {"error"}))
        /\ InProgress(1) =>
               \/ Cur(1) \in DOMAIN fs[1] /\ fs[1][Cur(1)] = Cur(1)[1]
               \/ /\ target_path[1] \in DOMAIN fs[1]
                  /\ fs[1][target_path[1]] = Cur(1)[1]

\* A real move has ended in each of the three ways: here a run in which one
\* candidate was moved by copy and delete and the other kept by a failed copy.
C7_Witness ==
    /\ pc[1] = "done" /\ cli[1].move /\ ~cli[1].dry_run
    /\ \E i, j \in 1..Len(log[1]) :
           /\ Met(log[1][i].path).rename = "fail"
           /\ Met(log[1][i].path).remove = "ok"
           /\ log[1][i].result \in Transferred
           /\ Met(log[1][j].path).copy = "fail"
           /\ log[1][j].result = "error"

\* C9: at every step of a dry run, the files, their contents and the
\* directories are those of the initial state.
C9_SimulateUnchanged ==
    cli[1].dry_run => fs[1] = fs0 /\ dirs[1] = dirs0

\* A dry run has ended with a candidate reported as organized into a
\* sub-directory that does not exist.
C9_Witness ==
    /\ pc[1] = "done" /\ cli[1].dry_run
    /\ \E i \in 1..Len(log[1]) :
           /\ log[1][i].result = "organized"
           /\ log[1][i].dest[1] \notin dirs[1]

\* The candidates of the run of Spec whose date has been extracted.
Extracted ==
    {i \in 1..Len(photos[1]) :
        /\ i < idx[1] \/ (i = idx[1] /\ InProgress(1))
        /\ Dated(photos[1][i])}

\* C10: the histogram counts sum to the number of candidates whose date was
\* extracted, whatever became of them; organized never exceeds that sum and,
\* between candidates, equals it exactly when no dated candidate was skipped
\* or ended in an error.
C10_HistogramTotal ==
    /\ SumCounts(stats[1].date_counts) = Cardinality(Extracted)
    /\ \A k \in DOMAIN stats[1].date_counts :
           stats[1].date_counts[k] =
               Cardinality({i \in Extracted :
                                HistogramKey(src[photos[1][i]].date) = k})
    /\ stats[1].organized <= SumCounts(stats[1].date_counts)
    /\ ~InProgress(1) =>
           ((stats[1].organized = SumCounts(stats[1].date_counts))
            <=> ~\E i \in Entries(1, {"skipped", "error"}) :
                     Dated(log[1][i].path))

\* A run has ended with two dated candidates in the histogram, one of them
\* not organized.
C10_Witness ==
    /\ pc[1] = "done"
    /\ SumCounts(stats[1].date_counts) = 2
    /\ stats[1].organized = 1

\* The entries of run r's log for the candidates that can be opened.
OpenedEntries(r) == SelectSeq(log[r], LAMBDA e : src[e.path].readable)

Unreadable == {i \in 1..Len(photos[1]) : ~src[photos[1][i]].readable}

\* C3: when the program has been run twice in real copy mode over the same
\* candidates and output directory, the second run skipped every file the
\* first organized, organized none of them, and the destination it resolved
\* for each was a file the first run left there: it created no new file.
C3_Idempotent ==
    (pc[1] = "done" /\ pc[2] = "done" /\ ~cli[1].move /\ ~cli[1].dry_run) =>
        /\ \A i \in Entries(1, {"organized"}) : log[2][i].result = "skipped"
        /\ Entries(1, {"organized"}) \cap Entries(2, {"organized"}) = {}
        /\ \A i \in Entries(1, {"organized"}) :
               log[2][i].dest \in
                   DOMAIN fs0 \cup {log[1][j].dest : j \in Entries(1, Transferred)}

\* C4 (step): a candidate that cannot be opened adds one to errors and changes
\* nothing else of the statistics, the directories or the files.
C4_UnreadableStep ==
    \A r \in Runs :
        (/\ pc[r] = "next" /\ idx[r] <= Len(photos[r])
         /\ (pc'[r] # pc[r] \/ idx'[r] # idx[r])
         /\ ~src[Cur(r)].readable) =>
            /\ stats' = [stats EXCEPT ![r].errors = @ + 1]
            /\ idx'[r] = idx[r] + 1 /\ pc'[r] = "next"
            /\ fs' = fs /\ dirs' = dirs

\* C4 (state): a run can go on until it is done; it has then handled every
\* candidate once, in order; its errors are those of the run without the
\* unreadable candidates plus one per unreadable candidate; and its other
\* counters, its histogram, the outcome and destination of every other
\* candidate and the final files and directories are those of that run.
C4_Isolated ==
    /\ (pc[1] # "done" \/ pc[2] # "done") => ENABLED Next
    /\ pc[1] = "done" =>
           /\ Len(log[1]) = Len(photos[1])
           /\ \A i \in 1..Len(log[1]) : log[1][i].path = photos[1][i]
           /\ \A i \in Unreadable : log[1][i].result = "error"
    /\ (pc[1] = "done" /\ pc[2] = "done") =>
           /\ stats[1] = [stats[2] EXCEPT !.errors = @ + Cardinality(Unreadable)]
           /\ (stats[2].errors = 0 => stats[1].errors = Cardinality(Unreadable))
           /\ OpenedEntries(1) = log[2]
           /\ fs[1] = fs[2] /\ dirs[1] = dirs[2]

\* C4: partial failure isolation: the run with unreadable candidates goes
\* through all of them, counts one error for each, and is otherwise the run
\* without them, in every state and at every step.
C4_PartialFailureIsolation == []C4_Isolated /\ [][C4_UnreadableStep]_vars

\* Both runs have ended; the first met an unreadable candidate before one it
\* transferred beside an existing file of the same name.
C4_Witness ==
    /\ pc[1] = "done" /\ pc[2] = "done" /\ ~cli[1].dry_run
    /\ \E i, j \in 1..Len(log[1]) :
           /\ i < j
           /\ ~src[log[1][i].path].readable
           /\ log[1][j].result \in Transferred
           /\ log[1][j].dest[2] # NameA

\* C5: a dry run and a real run with the same move flag, from the same file
\* system, report the same counts and histogram when no file system operation
\* of the real run fails.
C5_SameCounts ==
    (/\ pc[1] = "done" /\ pc[2] = "done"
     /\ \A p \in DOMAIN src :
            \A call \in {"mkdir", "rename", "copy", "remove"} :
                env[1][p][call] # "fail")
        => stats[1] = stats[2]

C6_OnlyOntoOthers ==
    \A r \in Runs :
        (Wrote(r) /\ target_path[r] \in DOMAIN Files(r)) =>
            /\ target_path[r] \notin DOMAIN fs0
            /\ \E o \in Runs \ {r} :
                   \/ \E i \in Entries(o, Transferred) :
                          log[o][i].dest = target_path[r]
                   \/ /\ pc[o] \in {"remove", "tally"}
                      /\ target_path[o] = target_path[r]

Numbered(name, i) ==
    FileStem(name) \o <<"_">> \o Digits(i)
    \o (IF Extension(name) = <<>> THEN <<>> ELSE <<".">> \o Extension(name))

====
